---- MODULE Spec2Model ----
(***************************************************************************)
(* Model of app.py, the electricity consumption dashboard: the start-up   *)
(* script (column detection, rename, metric derivation, layout) and the   *)
(* update_dashboard callback.                                              *)
(*                                                                         *)
(* Numbers: Power_Watts and Hours_Used are integers; Energy_kWh and Cost  *)
(* are fixed-point integers holding the value times Scale, so that the    *)
(* division by 1000 and the multiplication by 0.15 are both carried out   *)
(* and both exact on integer readings.                                     *)
(* Device cells are populated labels and Date cells are strings that may  *)
(* fail to parse; missing Device cells are outside the model.             *)
(* The two-decimal rendering of the summary text (line 107) is display    *)
(* only: the summary carries the two totals it renders.                   *)
(***************************************************************************)
EXTENDS Integers, Sequences, FiniteSets, TLC

\* ------------------------------------------------------------------ bounds
MaxCols == 5
MaxRows == 3
MaxWatts == 1
MaxHours == 1
MetricRows == 2

VARIABLES
    csv_columns,  \* the header of CSV_FILE
    csv_rows,     \* the rows of CSV_FILE
    pc,           \* where the script is: detect, prepare, layout, serving, failed, crashed
    idx,          \* the position of the loop of lines 22-31 in df.columns
    col_map,      \* col_map
    missing,      \* missing
    df_columns,   \* df.columns
    df,           \* the rows of df
    options,      \* the dropdown's options
    selected,     \* the dropdown's value
    outputs       \* what the last update_dashboard call returned

vars == <<csv_columns, csv_rows, pc, idx, col_map, missing, df_columns, df,
          options, selected, outputs>>

\* ------------------------------------------------------------- characters
UpperCase == <<"A","B","C","D","E","F","G","H","I","J","K","L","M",
               "N","O","P","Q","R","S","T","U","V","W","X","Y","Z">>
LowerCase == <<"a","b","c","d","e","f","g","h","i","j","k","l","m",
               "n","o","p","q","r","s","t","u","v","w","x","y","z">>

\* The characters of the strings the model uses (TLC strings are opaque).
Spelling ==
    ("Date"          :> <<"D","a","t","e">>) @@
    ("DAY"           :> <<"D","A","Y">>) @@
    ("Device"        :> <<"D","e","v","i","c","e">>) @@
    ("Power"         :> <<"P","o","w","e","r">>) @@
    ("Watts"         :> <<"W","a","t","t","s">>) @@
    ("Hours"         :> <<"H","o","u","r","s">>) @@
    ("Usage"         :> <<"U","s","a","g","e">>) @@
    ("Appliance"     :> <<"A","p","p","l","i","a","n","c","e">>) @@
    ("Hours_per_day" :> <<"H","o","u","r","s","_","p","e","r","_","d","a","y">>) @@
    ("Device_Power"  :> <<"D","e","v","i","c","e","_","P","o","w","e","r">>) @@
    ("Notes"         :> <<"N","o","t","e","s">>) @@
    ("Power_Watts"   :> <<"P","o","w","e","r","_","W","a","t","t","s">>) @@
    ("Hours_Used"    :> <<"H","o","u","r","s","_","U","s","e","d">>) @@
    ("Energy_kWh"    :> <<"E","n","e","r","g","y","_","k","W","h">>) @@
    ("Cost"          :> <<"C","o","s","t">>) @@
    ("date"          :> <<"d","a","t","e">>) @@
    ("day"           :> <<"d","a","y">>) @@
    ("device"        :> <<"d","e","v","i","c","e">>) @@
    ("appliance"     :> <<"a","p","p","l","i","a","n","c","e">>) @@
    ("power"         :> <<"p","o","w","e","r">>) @@
    ("watt"          :> <<"w","a","t","t">>) @@
    ("hour"          :> <<"h","o","u","r">>) @@
    ("usage"         :> <<"u","s","a","g","e">>) @@
    ("A"             :> <<"A">>) @@
    ("B"             :> <<"B">>) @@
    ("All"           :> <<"A","l","l">>) @@
    ("2025-01-01"    :> <<"2","0","2","5","-","0","1","-","0","1">>) @@
    ("2025-01-02"    :> <<"2","0","2","5","-","0","1","-","0","2">>) @@
    ("unknown"       :> <<"u","n","k","n","o","w","n">>)

Digits == <<"0","1","2","3","4","5","6","7","8","9">>

\* ord(): the code point of a character of the strings above.
Ord(ch) ==
    IF \E k \in 1..Len(UpperCase) : UpperCase[k] = ch
    THEN 64 + (CHOOSE k \in 1..Len(UpperCase) : UpperCase[k] = ch)
    ELSE IF \E k \in 1..Len(LowerCase) : LowerCase[k] = ch
    THEN 96 + (CHOOSE k \in 1..Len(LowerCase) : LowerCase[k] = ch)
    ELSE IF \E k \in 1..Len(Digits) : Digits[k] = ch
    THEN 47 + (CHOOSE k \in 1..Len(Digits) : Digits[k] = ch)
    ELSE IF ch = "_" THEN 95 ELSE 45

\* Python's a < b on strings: lexicographic by code point, a proper prefix first.
StrLess(a, b) ==
    LET x == Spelling[a]
        y == Spelling[b]
    IN  \E k \in 1..(Len(y)) :
            /\ \A m \in 1..(k - 1) : m <= Len(x) /\ x[m] = y[m]
            /\ \/ k > Len(x)
               \/ k <= Len(x) /\ Ord(x[k]) < Ord(y[k])

\* str.lower() on one character.
LowerChar(ch) ==
    IF \E k \in 1..Len(UpperCase) : UpperCase[k] = ch
    THEN LowerCase[CHOOSE k \in 1..Len(UpperCase) : UpperCase[k] = ch]
    ELSE ch

\* str.lower() of every string above, computed once.
Lowered ==
    [n \in DOMAIN Spelling |-> [k \in 1..Len(Spelling[n]) |-> LowerChar(Spelling[n][k])]]

lower(col) == Lowered[col]

\* Python's `kw in cname` on strings: kw occurs as a contiguous substring.
Contains(cname, kw) ==
    LET w == Spelling[kw]
    IN  \E s \in 0..(Len(cname) - Len(w)) :
            \A k \in 1..Len(w) : cname[s + k] = w[k]

\* ------------------------------------------------------- column detection
required_cols == <<"Date", "Device", "Power_Watts", "Hours_Used">>

IsDateName(cname)   == Contains(cname, "date")   \/ Contains(cname, "day")
IsDeviceName(cname) == Contains(cname, "device") \/ Contains(cname, "appliance")
IsPowerName(cname)  == Contains(cname, "power")  \/ Contains(cname, "watt")
IsHoursName(cname)  == Contains(cname, "hour")   \/ Contains(cname, "usage")

\* Mutant of AssignColumn: four independent ifs instead of the if/elif chain.
AssignColumn_ifs(map, col) ==
    LET cname == lower(col)
        m1 == IF IsDateName(cname)   THEN ("Date" :> col) @@ map ELSE map
        m2 == IF IsDeviceName(cname) THEN ("Device" :> col) @@ m1 ELSE m1
        m3 == IF IsPowerName(cname)  THEN ("Power_Watts" :> col) @@ m2 ELSE m2
        m4 == IF IsHoursName(cname)  THEN ("Hours_Used" :> col) @@ m3 ELSE m3
    IN  m4

\* One pass of the loop body: the if/elif chain on the lowercased name.
AssignColumn(map, col) ==
    LET cname == lower(col)
    IN  IF IsDateName(cname)        THEN ("Date" :> col) @@ map
        ELSE IF IsDeviceName(cname) THEN ("Device" :> col) @@ map
        ELSE IF IsPowerName(cname)  THEN ("Power_Watts" :> col) @@ map
        ELSE IF IsHoursName(cname)  THEN ("Hours_Used" :> col) @@ map
        ELSE map

\* Mutant of MissingRoles: the test made on col_map.values().
MissingRoles_values(map) ==
    SelectSeq(required_cols, LAMBDA c : c \notin {map[r] : r \in DOMAIN map})

\* [c for c in required_cols if c not in col_map]
MissingRoles(map) ==
    SelectSeq(required_cols, LAMBDA c : c \notin DOMAIN map)

\* df.rename(columns={v: k for k, v in col_map.items()}): a column whose name
\* is a value of col_map takes the role's name, every other column keeps its own.
RenameColumns(cols, map) ==
    [j \in 1..Len(cols) |->
        IF \E r \in DOMAIN map : map[r] = cols[j]
        THEN CHOOSE r \in DOMAIN map : map[r] = cols[j]
        ELSE cols[j]]

\* ------------------------------------------------------------ data frame
\* A frame is its column names (df_columns) and its rows (df), each row a
\* tuple of cells aligned with the column names.
ColumnCount(cols, name) == Cardinality({j \in 1..Len(cols) : cols[j] = name})

\* row[name] for a frame whose column `name` is unique.
Cell(cols, row, name) == row[CHOOSE j \in 1..Len(cols) : cols[j] = name]

\* The names after df[name] = ...: an existing column keeps its place, a new
\* one is appended.
WithColumn(cols, name) ==
    IF ColumnCount(cols, name) = 0 THEN Append(cols, name) ELSE cols

\* One row after df[name] = value.
SetCell(cols, row, name, value) ==
    IF ColumnCount(cols, name) = 0
    THEN Append(row, value)
    ELSE [j \in 1..Len(row) |-> IF cols[j] = name THEN value ELSE row[j]]

\* ---------------------------------------------------------- preparation
NaT == [valid |-> FALSE, ord |-> 0]

DigitValue(ch) == (CHOOSE k \in 1..Len(Digits) : Digits[k] = ch) - 1

IsDigit(ch) == \E k \in 1..Len(Digits) : Digits[k] = ch

\* pd.to_datetime(..., errors="coerce") on one cell: an ISO yyyy-mm-dd string
\* becomes a timestamp (kept as the ordinal yyyymmdd), anything else NaT.
to_datetime(cell) ==
    LET s == Spelling[cell]
        n(a, b) == 10 * DigitValue(s[a]) + DigitValue(s[b])
    IN  IF /\ Len(s) = 10
           /\ \A k \in {1, 2, 3, 4, 6, 7, 9, 10} : IsDigit(s[k])
           /\ s[5] = "-" /\ s[8] = "-"
           /\ n(6, 7) \in 1..12
           /\ n(9, 10) \in 1..31
        THEN [valid |-> TRUE,
              ord |-> (100 * n(1, 2) + n(3, 4)) * 10000 + 100 * n(6, 7) + n(9, 10)]
        ELSE NaT

\* Fixed point: a kWh or cost value v is held as the integer v * Scale.
Scale == 100000

\* COST_PER_KWH = 0.15
COST_PER_KWH == [num |-> 15, den |-> 100]

\* Mutant of Energy_kWh: the result clipped at zero.
Energy_kWh_clipped(power, hours) ==
    IF power * hours < 0 THEN 0 ELSE ((power * hours) * Scale) \div 1000

\* (Power_Watts * Hours_Used) / 1000
Energy_kWh(power, hours) == ((power * hours) * Scale) \div 1000

\* Energy_kWh * COST_PER_KWH
Cost(energy) == (energy * COST_PER_KWH.num) \div COST_PER_KWH.den

\* The three assignments of the preparation step on one row.
PrepareRow(cols, row) ==
    LET r1 == SetCell(cols, row, "Date", to_datetime(Cell(cols, row, "Date")))
        c2 == WithColumn(cols, "Energy_kWh")
        r2 == SetCell(cols, r1, "Energy_kWh",
                      Energy_kWh(Cell(cols, r1, "Power_Watts"),
                                 Cell(cols, r1, "Hours_Used")))
        r3 == SetCell(c2, r2, "Cost", Cost(Cell(c2, r2, "Energy_kWh")))
    IN  r3

PreparedColumns(cols) == WithColumn(WithColumn(cols, "Energy_kWh"), "Cost")

\* ------------------------------------------------------------ aggregation
\* Ascending order of a set of timestamps (groupby sorts its keys).
RECURSIVE SortedOrds(_)
SortedOrds(S) ==
    IF S = {} THEN <<>>
    ELSE LET m == CHOOSE x \in S : \A y \in S : x <= y
         IN  <<m>> \o SortedOrds(S \ {m})

\* sorted() on a set of distinct strings.
RECURSIVE sorted(_)
sorted(S) ==
    IF S = {} THEN <<>>
    ELSE LET m == CHOOSE x \in S : \A y \in S \ {x} : StrLess(x, y)
         IN  <<m>> \o sorted(S \ {m})

\* Series.sum() of column `name` over `rows`.
RECURSIVE SumColumn(_, _, _)
SumColumn(cols, rows, name) ==
    IF rows = <<>> THEN 0
    ELSE Cell(cols, Head(rows), name) + SumColumn(cols, Tail(rows), name)

\* df["Device"].unique() as a set.
unique(cols, rows, name) == {Cell(cols, rows[k], name) : k \in 1..Len(rows)}

\* The distinct elements of a sequence in the order they first appear.
RECURSIVE Appearance(_)
Appearance(seq) ==
    IF seq = <<>> THEN <<>>
    ELSE LET rest == Appearance(SelectSeq(Tail(seq), LAMBDA x : x # Head(seq)))
         IN  <<Head(seq)>> \o rest

\* Mutant of GroupByDate: groupby(..., sort=False), groups in order of appearance.
GroupByDate_unsorted(cols, rows, name) ==
    LET dated == SelectSeq(rows, LAMBDA r : Cell(cols, r, "Date").valid)
        keys  == Appearance([k \in 1..Len(dated) |-> Cell(cols, dated[k], "Date").ord])
    IN  [g \in 1..Len(keys) |->
            <<keys[g],
              SumColumn(cols,
                        SelectSeq(dated, LAMBDA r : Cell(cols, r, "Date").ord = keys[g]),
                        name)>>]

\* Mutant of GroupByDate: groupby(..., dropna=False), NaT rows form a group.
GroupByDate_keepna(cols, rows, name) ==
    LET keys == SortedOrds({Cell(cols, rows[k], "Date").ord : k \in 1..Len(rows)})
    IN  [g \in 1..Len(keys) |->
            <<keys[g],
              SumColumn(cols,
                        SelectSeq(rows, LAMBDA r : Cell(cols, r, "Date").ord = keys[g]),
                        name)>>]

\* rows.groupby("Date", as_index=False)[name].sum(): one <<date, sum>> row per
\* valid date, dates ascending; rows whose Date is NaT belong to no group.
GroupByDate(cols, rows, name) ==
    LET dated == SelectSeq(rows, LAMBDA r : Cell(cols, r, "Date").valid)
        keys  == SortedOrds({Cell(cols, dated[k], "Date").ord : k \in 1..Len(dated)})
    IN  [g \in 1..Len(keys) |->
            <<keys[g],
              SumColumn(cols,
                        SelectSeq(dated, LAMBDA r : Cell(cols, r, "Date").ord = keys[g]),
                        name)>>]

\* rows.groupby("Device", as_index=False)[name].sum(): one <<device, sum>> row
\* per device, devices in sorted order.
GroupByDevice(cols, rows, name) ==
    LET keys == sorted(unique(cols, rows, "Device"))
    IN  [g \in 1..Len(keys) |->
            <<keys[g],
              SumColumn(cols,
                        SelectSeq(rows, LAMBDA r : Cell(cols, r, "Device") = keys[g]),
                        name)>>]

\* df if selected_device == "All" else df[df["Device"] == selected_device]
filtered_df(cols, rows, selected_device) ==
    IF selected_device = "All" THEN rows
    ELSE SelectSeq(rows, LAMBDA r : Cell(cols, r, "Device") = selected_device)

\* The value update_dashboard returns: <<daily, device_sum, daily_cost, summary>>,
\* the summary as <<total_energy, total_cost>>.
\* Mutant of device_sum: the device comparison grouped over filtered_df.
device_sum_filtered(cols, rows, selected_device) ==
    GroupByDevice(cols, filtered_df(cols, rows, selected_device), "Energy_kWh")

\* Line 96: the device comparison groups the whole of df.
device_sum(cols, rows, selected_device) == GroupByDevice(cols, rows, "Energy_kWh")

Dashboard(cols, rows, selected_device) ==
    LET f == filtered_df(cols, rows, selected_device)
    IN  << GroupByDate(cols, f, "Energy_kWh"),
           device_sum(cols, rows, selected_device),
           GroupByDate(cols, f, "Cost"),
           <<SumColumn(cols, f, "Energy_kWh"), SumColumn(cols, f, "Cost")>> >>

\* The dropdown's options: "All Devices" first, then one per device, sorted.
DropdownOptions(cols, rows) ==
    LET ds == sorted(unique(cols, rows, "Device"))
    IN  <<[label |-> "All Devices", value |-> "All"]>> \o
        [k \in 1..Len(ds) |-> [label |-> ds[k], value |-> ds[k]]]

\* ---------------------------------------------------------------- actions
\* Lines 22-31: one iteration of the loop over df.columns.
DetectColumn ==
    /\ pc = "detect"
    /\ idx <= Len(df_columns)
    /\ col_map' = AssignColumn(col_map, df_columns[idx])
    /\ idx' = idx + 1
    /\ UNCHANGED <<csv_columns, csv_rows, pc, missing, df_columns, df, options, selected, outputs>>

\* Lines 34-37 when a role is missing: the ValueError ends the start-up.
RaiseMissing ==
    /\ pc = "detect"
    /\ idx > Len(df_columns)
    /\ MissingRoles(col_map) # <<>>
    /\ missing' = MissingRoles(col_map)
    /\ pc' = "failed"
    /\ UNCHANGED <<csv_columns, csv_rows, idx, col_map, df_columns, df, options, selected, outputs>>

\* Lines 34-39 when no role is missing: the rename.
Rename ==
    /\ pc = "detect"
    /\ idx > Len(df_columns)
    /\ MissingRoles(col_map) = <<>>
    /\ missing' = MissingRoles(col_map)
    /\ df_columns' = RenameColumns(df_columns, col_map)
    /\ pc' = "prepare"
    /\ UNCHANGED <<csv_columns, csv_rows, idx, col_map, df, options, selected, outputs>>

\* df["Date"], df["Power_Watts"] or df["Hours_Used"] is a frame, not a column,
\* when two columns carry the name: lines 43-45 raise.
PrepareRaises(cols) ==
    \E name \in {"Date", "Power_Watts", "Hours_Used"} : ColumnCount(cols, name) > 1

\* Lines 43-46.
Prepare ==
    /\ pc = "prepare"
    /\ ~PrepareRaises(df_columns)
    /\ df' = [k \in 1..Len(df) |-> PrepareRow(df_columns, df[k])]
    /\ df_columns' = PreparedColumns(df_columns)
    /\ pc' = "layout"
    /\ UNCHANGED <<csv_columns, csv_rows, idx, col_map, missing, options, selected, outputs>>

PrepareCrash ==
    /\ pc = "prepare"
    /\ PrepareRaises(df_columns)
    /\ pc' = "crashed"
    /\ UNCHANGED <<csv_columns, csv_rows, idx, col_map, missing, df_columns, df, options, selected, outputs>>

\* Lines 50-76: the layout, with the dropdown on "All".
BuildLayout ==
    /\ pc = "layout"
    /\ ColumnCount(df_columns, "Device") = 1
    /\ options' = DropdownOptions(df_columns, df)
    /\ selected' = "All"
    /\ pc' = "serving"
    /\ UNCHANGED <<csv_columns, csv_rows, idx, col_map, missing, df_columns, df, outputs>>

\* Line 63 when two columns are named Device: df["Device"] has no unique().
LayoutCrash ==
    /\ pc = "layout"
    /\ ColumnCount(df_columns, "Device") > 1
    /\ pc' = "crashed"
    /\ UNCHANGED <<csv_columns, csv_rows, idx, col_map, missing, df_columns, df, options, selected, outputs>>

\* Mutant of update_dashboard: the filter assigned to the global df.
update_dashboard_inplace(selected_device) ==
    /\ pc = "serving"
    /\ selected' = selected_device
    /\ df' = filtered_df(df_columns, df, selected_device)
    /\ outputs' = Dashboard(df_columns, df', selected_device)
    /\ UNCHANGED <<csv_columns, csv_rows, pc, idx, col_map, missing, df_columns, options>>

\* Lines 80-109: the callback, on a value the dropdown offers.
update_dashboard(selected_device) ==
    /\ pc = "serving"
    /\ selected' = selected_device
    /\ outputs' = Dashboard(df_columns, df, selected_device)
    /\ UNCHANGED <<csv_columns, csv_rows, pc, idx, col_map, missing, df_columns, df, options>>

Select ==
    \E k \in 1..Len(options) : update_dashboard(options[k].value)

Next ==
    \/ DetectColumn
    \/ RaiseMissing
    \/ Rename
    \/ Prepare
    \/ PrepareCrash
    \/ BuildLayout
    \/ LayoutCrash
    \/ Select

\* ------------------------------------------------------------ input files
\* The state after pd.read_csv (line 16) on a file with the given header and rows.
Loaded(header, rows) ==
    /\ csv_columns = header
    /\ csv_rows = rows
    /\ pc = "detect"
    /\ idx = 1
    /\ col_map = <<>>
    /\ missing = <<>>
    /\ df_columns = header
    /\ df = rows
    /\ options = <<>>
    /\ selected = ""
    /\ outputs = <<>>

\* Headers: distinct names (read_csv makes repeated names distinct).
ColumnPool == {"Date", "DAY", "Device", "Power", "Watts", "Hours",
               "Hours_per_day", "Device_Power", "Notes"}

Headers(n) ==
    UNION {{h \in [1..m -> ColumnPool] : \A a, b \in 1..m : a # b => h[a] # h[b]}
           : m \in 1..n}

\* What the cells of a column hold in the data files.
CellValues(col) ==
    IF col \in {"Date", "DAY"} THEN {"2025-01-01", "2025-01-02", "unknown"}
    ELSE IF col = "Appliance" THEN {"A", "B"}
    ELSE IF col = "Device" THEN {"A", "All"}
    ELSE IF col \in {"Power", "Watts", "Power_Watts"} THEN {1000}
    ELSE IF col \in {"Hours", "Usage", "Hours_Used"} THEN {2, 3}
    ELSE {"-"}

RECURSIVE RowsOf(_)
RowsOf(header) ==
    IF header = <<>> THEN {<<>>}
    ELSE {<<c>> \o r : c \in CellValues(Head(header)), r \in RowsOf(Tail(header))}

Tables(header, n) == UNION {[1..m -> RowsOf(header)] : m \in 0..n}

\* The headers of the data files: the keywords' second spellings in another
\* order with a column of no role, and the plain names.
DataHeaders ==
    { <<"Appliance", "Usage", "Notes", "DAY", "Watts">>,
      <<"Date", "Device", "Power", "Hours">> }

\* Headers on which the start-up ends early, with a file of at most one row.
EdgeHeaders ==
    { <<"Date", "Device", "Power", "Hours_per_day">>,
      <<"Date", "DAY", "Device", "Power", "Hours">>,
      <<"Date", "Device", "Appliance", "Power", "Hours">> }

EdgeInit == \E h \in EdgeHeaders : \E t \in Tables(h, 1) : Loaded(h, t)

Init ==
    \/ \E h \in DataHeaders : \E t \in Tables(h, MaxRows) : Loaded(h, t)
    \/ EdgeInit

Spec == Init /\ [][Next]_vars

\* Header-only files over every header of up to MaxCols pool names.
InitColumns == \E h \in Headers(MaxCols) : Loaded(h, <<>>)

SpecColumns == InitColumns /\ [][Next]_vars

\* Files under the canonical header whose readings range over signed integers.
MetricHeader == <<"Date", "Device", "Power_Watts", "Hours_Used">>

MetricReadings ==
    {<<"2025-01-01", "A", p, h>> : p \in (-MaxWatts)..MaxWatts, h \in (-MaxHours)..MaxHours}

InitMetrics ==
    \/ \E t \in UNION {[1..m -> MetricReadings] : m \in 0..MetricRows} :
            Loaded(MetricHeader, t)
    \/ EdgeInit

SpecMetrics == InitMetrics /\ [][Next]_vars

\* ============================================================== properties
\* Vocabulary of the properties: stated on sets of row numbers and on the
\* keyword table, not through the operators above.
Roles == {required_cols[k] : k \in 1..Len(required_cols)}

RolePos(r) == CHOOSE k \in 1..Len(required_cols) : required_cols[k] = r

Keywords ==
    ("Date" :> {"date", "day"}) @@ ("Device" :> {"device", "appliance"}) @@
    ("Power_Watts" :> {"power", "watt"}) @@ ("Hours_Used" :> {"hour", "usage"})

\* The roles a name has a keyword of, for every string above, computed once.
KeywordRoles ==
    [n \in DOMAIN Spelling |->
        {r \in Roles : \E kw \in Keywords[r] : Contains(lower(n), kw)}]

HasKeyword(col, r) == r \in KeywordRoles[col]

\* The first role, in the order of required_cols, a name has a keyword of.
FirstRoleOf(col) ==
    IF KeywordRoles[col] # {}
    THEN CHOOSE r \in KeywordRoles[col] :
            \A q \in KeywordRoles[col] : RolePos(r) <= RolePos(q)
    ELSE "none"

Scanned == 1..(idx - 1)

ScanDone == idx > Len(csv_columns)

Unmapped == {r \in Roles : r \notin DOMAIN col_map}

Hits(r) == {j \in Scanned : FirstRoleOf(csv_columns[j]) = r}

MaxOf(S) == CHOOSE x \in S : \A y \in S : y <= x

Rows == 1..Len(df)

DeviceOf(k) == Cell(df_columns, df[k], "Device")
DateOf(k)   == Cell(df_columns, df[k], "Date")
EnergyOf(k) == Cell(df_columns, df[k], "Energy_kWh")
CostOf(k)   == Cell(df_columns, df[k], "Cost")

\* The cell of row k of the file in the column the resolver mapped to role r.
RawOf(k, r) == Cell(csv_columns, csv_rows[k], col_map[r])

RECURSIVE EnergyOver(_)
EnergyOver(S) ==
    IF S = {} THEN 0
    ELSE LET k == CHOOSE x \in S : TRUE IN EnergyOf(k) + EnergyOver(S \ {k})

RECURSIVE CostOver(_)
CostOver(S) ==
    IF S = {} THEN 0
    ELSE LET k == CHOOSE x \in S : TRUE IN CostOf(k) + CostOver(S \ {k})

Over(S, field) == IF field = "Energy_kWh" THEN EnergyOver(S) ELSE CostOver(S)

Devices == {DeviceOf(k) : k \in Rows}

RowsOfDevice(d) == {k \in Rows : DeviceOf(k) = d}

\* The rows the current selection shows.
Shown == IF selected = "All" THEN Rows ELSE RowsOfDevice(selected)

Rendered == pc = "serving" /\ outputs # <<>>

RECURSIVE TotalOf(_)
TotalOf(series) ==
    IF series = <<>> THEN 0 ELSE Head(series)[2] + TotalOf(Tail(series))

\* series is the daily series of `field` over the rows S: one entry per valid
\* date of S, dates strictly ascending, each entry the sum over its date's rows.
IsDailyOf(series, S, field) ==
    /\ \A g \in 1..(Len(series) - 1) : series[g][1] < series[g + 1][1]
    /\ {series[g][1] : g \in 1..Len(series)} =
       {DateOf(k).ord : k \in {x \in S : DateOf(x).valid}}
    /\ \A g \in 1..Len(series) :
          series[g][2] =
            Over({k \in S : DateOf(k).valid /\ DateOf(k).ord = series[g][1]}, field)

\* series holds one entry per device of the whole of df, each the device's total.
IsDeviceTotals(series) ==
    /\ Len(series) = Cardinality(Devices)
    /\ {series[g][1] : g \in 1..Len(series)} = Devices
    /\ \A g \in 1..Len(series) : series[g][2] = EnergyOver(RowsOfDevice(series[g][1]))

IsoDates == {"2025-01-01", "2025-01-02"}

\* The rows of the file whose date cell is no date.
Unparsable == {k \in 1..Len(csv_rows) : RawOf(k, "Date") \notin IsoDates}

\* ---------------------------------------------------------------------- C1
\* C1: once every column is scanned, if each of the four roles has a column
\* whose lowercased name contains one of the role's keywords, col_map holds all
\* four roles and the start-up has not failed with the missing-column error.
C1_Completeness ==
    (ScanDone /\ \A r \in Roles : \E j \in 1..Len(csv_columns) : HasKeyword(csv_columns[j], r))
        => (Roles \subseteq DOMAIN col_map /\ pc # "failed")

\* ---------------------------------------------------------------------- C2
\* C2: after the scan, missing lists exactly the unmapped roles, each once, in
\* the order of required_cols; the start-up fails exactly when a role is
\* unmapped; and a failed start-up has built no layout, has run no callback and
\* can take no further step.
C2_SchemaFailure ==
    /\ pc = "detect" => missing = <<>>
    /\ pc # "detect" =>
          /\ {missing[a] : a \in 1..Len(missing)} = Unmapped
          /\ \A a, b \in 1..Len(missing) : a < b => RolePos(missing[a]) < RolePos(missing[b])
          /\ (pc = "failed") <=> (Unmapped # {})
    /\ pc = "failed" =>
          /\ options = <<>> /\ outputs = <<>> /\ selected = ""
          /\ df_columns = csv_columns
          /\ ~ENABLED Next

C2_Witness == pc = "failed" /\ Len(missing) >= 2 /\ missing[1] # "Date"

\* ---------------------------------------------------------------------- C8
\* C8: right after the rename the frame has exactly the four canonical columns,
\* each once, and the column named by a role is the source column col_map maps
\* to the role, cells included.
C8_NormalizerShape ==
    pc = "prepare" =>
        /\ Len(df_columns) = Len(required_cols)
        /\ \A r \in Roles :
              /\ ColumnCount(df_columns, r) = 1
              /\ \A j \in 1..Len(df_columns) :
                    df_columns[j] = r =>
                        /\ csv_columns[j] = col_map[r]
                        /\ \A k \in Rows : df[k][j] = csv_rows[k][j]

\* --------------------------------------------------------------------- C10
\* C10: at every point of the scan, a role is in col_map exactly when some
\* scanned column has it as its first role, and it then maps to the last such
\* column; a column is the value of at most one role; and the start-up never
\* fails because several columns matched one role.
C10_AssignmentRule ==
    /\ DOMAIN col_map \subseteq Roles
    /\ \A r \in Roles :
          /\ (r \in DOMAIN col_map) <=> (Hits(r) # {})
          /\ Hits(r) # {} => col_map[r] = csv_columns[MaxOf(Hits(r))]
    /\ \A r, q \in DOMAIN col_map : col_map[r] = col_map[q] => r = q
    /\ pc = "failed" => \E r \in Roles : Hits(r) = {}

C10_Witness ==
    /\ ScanDone
    /\ \E r \in Roles : Cardinality(Hits(r)) >= 2
    /\ \E j \in Scanned : \E r, q \in Roles :
          r # q /\ HasKeyword(csv_columns[j], r) /\ HasKeyword(csv_columns[j], q)
    /\ \E j \in Scanned : FirstRoleOf(csv_columns[j]) = "none"

\* ---------------------------------------------------------------------- C3
\* C3: after a callback, if the selected value is a device of the Device column
\* the summary totals are the sums over exactly that device's rows, and if the
\* selected value is "All" they are the sums over every row.
C3_FilterSummary ==
    Rendered =>
        /\ selected \in Devices =>
              outputs[4] = <<EnergyOver(RowsOfDevice(selected)), CostOver(RowsOfDevice(selected))>>
        /\ selected = "All" => outputs[4] = <<EnergyOver(Rows), CostOver(Rows)>>

C5_DailySeries ==
    Rendered =>
        /\ IsDailyOf(outputs[1], Shown, "Energy_kWh")
        /\ IsDailyOf(outputs[3], Shown, "Cost")

C5_Witness ==
    /\ Rendered
    /\ selected = "A"
    /\ Len(outputs[1]) = 2
    /\ outputs[1][1][2] # outputs[1][2][2]
    /\ \E k, l \in Shown : k < l /\ DateOf(k).valid /\ DateOf(l).valid
                             /\ DateOf(k).ord > DateOf(l).ord
    /\ \E k, l \in Shown : k # l /\ DateOf(k) = DateOf(l) /\ DateOf(k).valid

\* ---------------------------------------------------------------------- C6
\* C6: no row of the file is ever dropped and the start-up never ends on account
\* of a date; once prepared, a row whose date cell is no date carries NaT; and
\* after a callback such a row, when shown, is in no entry of either daily
\* series (they are the series of the shown rows without it) while its energy
\* and cost are part of the summary totals and of its device's total.
C6_UnparsableDates ==
    /\ Len(df) = Len(csv_rows)
    /\ pc = "failed" => Unmapped # {}
    /\ pc = "crashed" => \E r \in Roles : ColumnCount(df_columns, r) > 1
    /\ pc \in {"layout", "serving"} => \A k \in Unparsable : DateOf(k) = NaT
    /\ Rendered =>
          \A k \in Unparsable :
              /\ \E g \in 1..Len(outputs[2]) :
                    /\ outputs[2][g][1] = DeviceOf(k)
                    /\ outputs[2][g][2] =
                         EnergyOf(k) + EnergyOver(RowsOfDevice(DeviceOf(k)) \ {k})
              /\ k \in Shown =>
                    /\ IsDailyOf(outputs[1], Shown \ {k}, "Energy_kWh")
                    /\ IsDailyOf(outputs[3], Shown \ {k}, "Cost")
                    /\ outputs[4] = <<EnergyOf(k) + EnergyOver(Shown \ {k}),
                                      CostOf(k) + CostOver(Shown \ {k})>>

C6_Witness ==
    /\ Rendered
    /\ selected = "B"
    /\ \E k \in Unparsable : k \in Shown /\ EnergyOf(k) > 0
    /\ \E k \in Shown : DateOf(k).valid
    /\ Len(outputs[1]) = 1

\* ---------------------------------------------------------------------- C7
\* C7: once the dashboard is serving, no step changes df (rows or columns) or
\* the file, and what the last callback returned is determined by df and the
\* selected value alone: the two daily series of the shown rows, the device
\* totals of the whole of df and the two sums over the shown rows.
C7_Purity ==
    /\ [][pc = "serving" =>
            /\ df' = df /\ df_columns' = df_columns
            /\ csv_rows' = csv_rows /\ csv_columns' = csv_columns
            /\ pc' = "serving"]_vars
    /\ [](Rendered =>
            /\ IsDailyOf(outputs[1], Shown, "Energy_kWh")
            /\ IsDeviceTotals(outputs[2])
            /\ IsDailyOf(outputs[3], Shown, "Cost")
            /\ outputs[4] = <<EnergyOver(Shown), CostOver(Shown)>>)

C7_Witness ==
    /\ Rendered
    /\ selected = "B"
    /\ RowsOfDevice("A") # {} /\ RowsOfDevice("B") # {}
    /\ Len(df) = MaxRows

====
